---- MODULE Spec2Model ----
(***************************************************************************)
(* Model of the RAW10 codec of the IMX296 capture tool:                    *)
(*   util::unpackRaw10To16 (src/src/Util.cpp) and                          *)
(*   DngWriter::write      (src/src/DngWriter.cpp).                        *)
(* A harness calls one of the two functions with inputs drawn from small   *)
(* sets; each function is a sequence of steps over its local state.        *)
(***************************************************************************)
EXTENDS Integers, Sequences, FiniteSets, TLC

VARIABLES
    op,             \* which function the harness exercises
    pc,             \* position inside the running function
    callNo,         \* DngWriter::write: 1 = first call, 2 = repeated call
    meta,           \* DngMeta
    pixels,         \* std::vector<uint16_t> handed to DngWriter::write
    dest,           \* the destination file: [exists, data]
    destBefore,     \* the destination as it was when write was called
    firstOut,       \* bytes the first call left in its destination
    f,              \* std::ofstream f: [good, pos]
    ifdStart,       \* std::streampos ifdStart
    bi,             \* index of the next data block to write
    off,            \* bpsOff, cfaDimOff, ... (offsets returned by the writers)
    stripOffset,
    stripByteCount,
    ifd,            \* std::vector<IfdEntry>
    actualCount,
    endPos,
    ret,            \* value returned by the function
    fb,             \* libcamera::FrameBuffer: [planes, offset, length, cookie]
    mem,            \* bytes of the plane, starting at cookie + offset
    width, height,  \* arguments of unpackRaw10To16
    dst,            \* std::vector<uint16_t> &dst
    outIdx, y, x, line,
    orig,           \* round trip: the buffer that was packed into mem
    token,          \* the mosaic string handed to toBayer
    cfa,            \* the CFA pattern resolved for it
    reqState,       \* capture: request -> "queued", "callback", "idle", "cancelled"
    camRunning,     \* capture: the camera delivers completed requests
    cbPc,           \* capture: position of reqComplete on the camera thread
    cbReq,          \* capture: the request reqComplete was called with
    cbBase,         \* capture: fb->cookie() as unpackRaw10To16 read it (TRUE = mapped address)
    saved,          \* capture: unsigned saved
    g_stop,         \* capture: set by the SIGINT handler
    mainPc,         \* capture: position of main
    mapped          \* capture: buffer -> "mapped", "unmapped" (cookie still set), "cleared"

vars == <<op, pc, callNo, meta, pixels, dest, destBefore, firstOut, f, ifdStart,
          bi, off, stripOffset, stripByteCount, ifd, actualCount, endPos, ret,
          fb, mem, width, height, dst, outIdx, y, x, line, orig,
          token, cfa, reqState, camRunning, cbPc, cbReq, cbBase, saved, g_stop,
          mainPc, mapped>>

writerVars == <<callNo, meta, pixels, dest, destBefore, firstOut, f, ifdStart,
                bi, off, stripOffset, stripByteCount, ifd, actualCount, endPos>>

unpackVars == <<fb, mem, width, height, dst, outIdx, y, x, line, orig>>

resolveVars == <<token, cfa>>

captureVars == <<reqState, camRunning, cbPc, cbReq, cbBase, saved, g_stop, mainPc, mapped>>

----------------------------------------------------------------------------
(* Bounds of the model *)

MaxW == 2           \* DngWriter::write: widths 0..MaxW
MaxH == 2           \* DngWriter::write: heights 0..MaxH
OldLen == 300       \* length of a destination file that exists before the call
UnpackMaxW == 6     \* unpackRaw10To16: widths 0..UnpackMaxW
UnpackMaxH == 2     \* unpackRaw10To16: heights 0..UnpackMaxH
PatternBits == 5    \* unpack inputs follow a bit pattern of this period
PixelBits == 2      \* write: pixels follow a bit pattern of this period
BufferCount == 2    \* capture: buffers (and requests) the allocator returned
Frames == 2         \* capture: --frames

----------------------------------------------------------------------------
(* Fixed-width integers and little-endian byte images *)

\* uint32_t values are far below 2^31 here, except static_cast<uint32_t>(-1),
\* which is held as -1: % and \div round down, so its bytes and its parity
\* are those of 0xFFFFFFFF.
U16(v) == v % 65536

LE16(v) == <<v % 256, (v \div 256) % 256>>
LE32(v) == <<v % 256, (v \div 256) % 256, (v \div 65536) % 256, (v \div 16777216) % 256>>

RECURSIVE Flatten(_)
Flatten(ss) == IF ss = <<>> THEN <<>> ELSE Head(ss) \o Flatten(Tail(ss))

----------------------------------------------------------------------------
(* DngWriter.cpp: constants *)

TYPE_BYTE == 1
TYPE_ASCII == 2
TYPE_SHORT == 3
TYPE_LONG == 4
TYPE_RATIONAL == 5

TAG_ImageWidth == 256
TAG_ImageLength == 257
TAG_BitsPerSample == 258
TAG_Compression == 259
TAG_Photometric == 262
TAG_StripOffsets == 273
TAG_SamplesPerPixel == 277
TAG_RowsPerStrip == 278
TAG_StripByteCounts == 279
TAG_PlanarConfig == 284
TAG_CFARepeatPattern == 33421
TAG_CFAPattern == 33422
TAG_DNGVersion == 50706
TAG_UniqueCameraModel == 50708
TAG_CFAPlaneColor == 50710
TAG_BlackLevel == 50714
TAG_WhiteLevel == 50717
TAG_DefaultScale == 50733
TAG_CalibrationIlluminant1 == 50778
TAG_ColorMatrix1 == 50721

SizeofTiffHeader == 8       \* sizeof(TiffHeader), packed: 2 + 2 + 4
SizeofIfdEntry == 12        \* sizeof(IfdEntry): 2 + 2 + 4 + 4, no padding
entryCount_TooSmall == 16 - 6      \* mutant: a placeholder smaller than the directory
entryCount == 22            \* 16 + 6

BayerPattern == {"RGGB", "BGGR", "GRBG", "GBRG"}

bayerPattern2x2(b) ==
    CASE b = "RGGB" -> <<0, 1, 1, 2>>
      [] b = "BGGR" -> <<2, 1, 1, 0>>
      [] b = "GRBG" -> <<1, 0, 2, 1>>
      [] b = "GBRG" -> <<1, 2, 0, 1>>
      [] OTHER -> <<0, 1, 1, 2>>

\* std::toupper over the letters the tokens use
ToUpper(str) ==
    CASE str = "rggb" -> "RGGB" [] str = "bggr" -> "BGGR"
      [] str = "grbg" -> "GRBG" [] str = "gbrg" -> "GBRG"
      [] str = "Rggb" -> "RGGB"
      [] OTHER -> str

\* mutant: the token compared without regard to case
toBayer_AnyCase(str) ==
    IF ToUpper(str) \in BayerPattern THEN ToUpper(str) ELSE "RGGB"

toBayer(str) ==
    IF str = "RGGB" THEN "RGGB"
    ELSE IF str = "BGGR" THEN "BGGR"
    ELSE IF str = "GRBG" THEN "GRBG"
    ELSE IF str = "GBRG" THEN "GBRG"
    ELSE "RGGB"

\* "Raspberry Pi Global Shutter Camera IMX296"
UniqueCameraModel ==
    <<82, 97, 115, 112, 98, 101, 114, 114, 121, 32, 80, 105, 32, 71, 108, 111,
      98, 97, 108, 32, 83, 104, 117, 116, 116, 101, 114, 32, 67, 97, 109, 101,
      114, 97, 32, 73, 77, 88, 50, 57, 54>>

TiffHeader == LE16(18761) \o LE16(42) \o LE32(SizeofTiffHeader)

IfdEntry(tag, type, count, value) ==
    [tag |-> tag, type |-> type, count |-> count, value |-> value]

\* the 12 bytes of an IfdEntry as f.write(&ifd[i], sizeof(IfdEntry)) stores them
IfdEntryBytes(e) == LE16(e.tag) \o LE16(e.type) \o LE32(e.count) \o LE32(e.value)

----------------------------------------------------------------------------
(* The output stream.  f = [good, pos]; data = the bytes of the destination. *)
(* A stream whose state is not good ignores writes and seeks, and tellp()    *)
(* returns -1.  A write past the end of the file leaves a hole of zeros.     *)

Max(a, b) == IF a >= b THEN a ELSE b

Overlay(data, p, bs) ==
    IF bs = <<>> THEN data
    ELSE [i \in 1..Max(Len(data), p + Len(bs)) |->
             IF i > p /\ i <= p + Len(bs) THEN bs[i - p]
             ELSE IF i <= Len(data) THEN data[i] ELSE 0]

\* s = [good, pos, data]; ok = whether the operating system performs the write
StreamWrite(s, bs, ok) ==
    IF ~s.good THEN s
    ELSE IF ~ok THEN [s EXCEPT !.good = FALSE]
    ELSE [s EXCEPT !.pos = s.pos + Len(bs), !.data = Overlay(s.data, s.pos, bs)]

StreamSeek(s, p, ok) ==
    IF ~s.good THEN s
    ELSE IF ~ok \/ p < 0 THEN [s EXCEPT !.good = FALSE]
    ELSE [s EXCEPT !.pos = p]

tellp(s) == IF s.good THEN s.pos ELSE -1

currentOffset(s) == IF s.good THEN s.pos ELSE -1

\* mutant: no pad byte
align2Pad_None(s) == <<>>

align2Pad(s) == IF currentOffset(s) % 2 # 0 THEN <<0>> ELSE <<>>

align2(s, ok) == IF align2Pad(s) # <<>> THEN StreamWrite(s, align2Pad(s), ok) ELSE s

\* each writer returns [s |-> stream afterwards, off |-> offset of the block]
writeArraySHORT(s, arr, ok) ==
    LET a == align2(s, ok)
    IN  [s |-> StreamWrite(a, Flatten([i \in 1..Len(arr) |-> LE16(arr[i])]), ok),
         off |-> currentOffset(a)]

writeArrayBYTE(s, arr, ok) ==
    LET a == align2(s, ok)
    IN  [s |-> StreamWrite(a, arr, ok), off |-> currentOffset(a)]

writeArrayRATIONAL(s, arr, ok) ==
    LET a == align2(s, ok)
    IN  [s |-> StreamWrite(a, Flatten([i \in 1..Len(arr) |->
                                  LE32(arr[i][1]) \o LE32(arr[i][2])]), ok),
         off |-> currentOffset(a)]

writeAscii(s, str, ok) ==
    [s |-> StreamWrite(s, str \o <<0>>, ok), off |-> currentOffset(s)]

----------------------------------------------------------------------------
(* DngWriter::write *)

BlockNames == <<"bpsOff", "cfaDimOff", "cfaPattOff", "cfaPlaneColorOff",
                "defaultScaleOff", "dngVerOff", "ucmOff", "blackOff", "whiteOff",
                "cmOff">>

NumBlocks == Len(BlockNames)

\* the b-th data block of write, in the order the function writes them
writeBlock(s, b, m, ok) ==
    CASE b = 1 -> writeArraySHORT(s, <<m.bitsPerSample>>, ok)
      [] b = 2 -> writeArraySHORT(s, <<2, 2>>, ok)
      [] b = 3 -> writeArrayBYTE(s, bayerPattern2x2(m.bayer), ok)
      [] b = 4 -> writeArrayBYTE(s, <<0, 1, 2>>, ok)
      [] b = 5 -> writeArrayRATIONAL(s, <<<<1, 1>>, <<1, 1>>>>, ok)
      [] b = 6 -> writeArrayBYTE(s, <<1, 4, 0, 0>>, ok)
      [] b = 7 -> writeAscii(s, UniqueCameraModel, ok)
      [] b = 8 -> writeArraySHORT(s, <<m.blackLevel>>, ok)
      [] b = 9 -> writeArraySHORT(s, <<m.whiteLevel>>, ok)
      [] b = 10 -> writeArrayRATIONAL(s, <<<<1, 1>>, <<0, 1>>, <<0, 1>>,
                                           <<0, 1>>, <<1, 1>>, <<0, 1>>,
                                           <<0, 1>>, <<0, 1>>, <<1, 1>>>>, ok)

\* mutant: the samples stored high byte first
StripBytes_BigEndian(px, n) ==
    Flatten([i \in 1..n |-> <<px[i] \div 256, px[i] % 256>>])

\* pixels.data() written as bytes: the host (ARM, x86) is little-endian
StripBytes(px, n) == Flatten([i \in 1..n |-> LE16(px[i])])

\* static_cast<uint16_t>(meta.cfaIlluminant)
illuminantOf(m) == U16(m.cfaIlluminant)

\* the push(...) calls, in source order
pushEntries(m, o, so, sbc) ==
    << IfdEntry(TAG_ImageWidth, TYPE_LONG, 1, m.width),
       IfdEntry(TAG_ImageLength, TYPE_LONG, 1, m.height),
       IfdEntry(TAG_BitsPerSample, TYPE_SHORT, 1, o["bpsOff"]),
       IfdEntry(TAG_Compression, TYPE_SHORT, 1, 1),
       IfdEntry(TAG_Photometric, TYPE_SHORT, 1, 32803),
       IfdEntry(TAG_SamplesPerPixel, TYPE_SHORT, 1, 1),
       IfdEntry(TAG_PlanarConfig, TYPE_SHORT, 1, 1),
       IfdEntry(TAG_RowsPerStrip, TYPE_LONG, 1, m.height),
       IfdEntry(TAG_StripOffsets, TYPE_LONG, 1, so),
       IfdEntry(TAG_StripByteCounts, TYPE_LONG, 1, sbc),
       IfdEntry(TAG_CFARepeatPattern, TYPE_SHORT, 2, o["cfaDimOff"]),
       IfdEntry(TAG_CFAPattern, TYPE_BYTE, 4, o["cfaPattOff"]),
       IfdEntry(TAG_CFAPlaneColor, TYPE_BYTE, 3, o["cfaPlaneColorOff"]),
       IfdEntry(TAG_DNGVersion, TYPE_BYTE, 4, o["dngVerOff"]),
       IfdEntry(TAG_UniqueCameraModel, TYPE_ASCII, Len(UniqueCameraModel) + 1, o["ucmOff"]),
       IfdEntry(TAG_BlackLevel, TYPE_SHORT, 1, o["blackOff"]),
       IfdEntry(TAG_WhiteLevel, TYPE_SHORT, 1, o["whiteOff"]),
       IfdEntry(TAG_DefaultScale, TYPE_RATIONAL, 2, o["defaultScaleOff"]),
       IfdEntry(TAG_CalibrationIlluminant1, TYPE_SHORT, 1, illuminantOf(m)),
       IfdEntry(TAG_ColorMatrix1, TYPE_RATIONAL, 9, o["cmOff"]) >>

\* mutant: the reserved entry count written instead of the actual one
IfdBytes_ReservedCount(cnt, es) ==
    LE16(entryCount) \o Flatten([i \in 1..cnt |-> IfdEntryBytes(es[i])]) \o LE32(0)

\* count, entries and the next-IFD word, as the "Write IFD" loop stores them
IfdBytes(cnt, es) ==
    LE16(cnt) \o Flatten([i \in 1..cnt |-> IfdEntryBytes(es[i])]) \o LE32(0)

\* mutant: only a short buffer is rejected
SizeMismatch_ShortOnly(n, w, h) == n < w * h

\* pixels.size() != size_t(w) * h
SizeMismatch(n, w, h) == n # w * h

\* mutant: the destination opened without truncation
OpenTruncate_Keep(old) == old

\* std::ofstream f(path, std::ios::binary): mode out, which truncates
OpenTruncate(old) == <<>>

Stream == [good |-> f.good, pos |-> f.pos, data |-> dest.data]

SetStream(s) ==
    /\ f' = [good |-> s.good, pos |-> s.pos]
    /\ dest' = [dest EXCEPT !.data = s.data]

W_CheckSize ==
    /\ op = "write" /\ pc = "w_check"
    /\ IF SizeMismatch(Len(pixels), meta.width, meta.height)
       THEN ret' = FALSE /\ pc' = "done"
       ELSE ret' = ret /\ pc' = "w_open"
    /\ UNCHANGED <<resolveVars, captureVars, op, writerVars, unpackVars>>

W_Open ==
    /\ op = "write" /\ pc = "w_open"
    /\ \E ok \in BOOLEAN :
         IF ok
         THEN /\ dest' = [exists |-> TRUE, data |-> OpenTruncate(dest.data)]
              /\ f' = [good |-> TRUE, pos |-> 0]
              /\ pc' = "w_header"
              /\ ret' = ret
         ELSE /\ ret' = FALSE
              /\ pc' = "done"
              /\ UNCHANGED <<dest, f>>
    /\ UNCHANGED <<resolveVars, captureVars, op, callNo, meta, pixels, destBefore, firstOut, ifdStart, bi, off,
                   stripOffset, stripByteCount, ifd, actualCount, endPos, unpackVars>>

W_Header ==
    /\ op = "write" /\ pc = "w_header"
    /\ \E ok \in BOOLEAN : SetStream(StreamWrite(Stream, TiffHeader, ok))
    /\ pc' = "w_reserve"
    /\ UNCHANGED <<resolveVars, captureVars, op, callNo, meta, pixels, destBefore, firstOut, ifdStart, bi, off,
                   stripOffset, stripByteCount, ifd, actualCount, endPos, ret, unpackVars>>

W_Reserve ==
    /\ op = "write" /\ pc = "w_reserve"
    /\ ifdStart' = tellp(Stream)
    /\ actualCount' = 0
    /\ \E ok \in BOOLEAN :
         SetStream(StreamSeek(Stream,
                      tellp(Stream) + 2 + entryCount * SizeofIfdEntry + 4, ok))
    /\ bi' = 1
    /\ pc' = "w_block"
    /\ UNCHANGED <<resolveVars, captureVars, op, callNo, meta, pixels, destBefore, firstOut, off,
                   stripOffset, stripByteCount, ifd, endPos, ret, unpackVars>>

W_Block ==
    /\ op = "write" /\ pc = "w_block"
    /\ \E ok \in BOOLEAN :
         LET r == writeBlock(Stream, bi, meta, ok)
         IN  /\ SetStream(r.s)
             /\ off' = [off EXCEPT ![BlockNames[bi]] = r.off]
    /\ IF bi = NumBlocks
       THEN bi' = bi /\ pc' = "w_strip"
       ELSE bi' = bi + 1 /\ pc' = pc
    /\ UNCHANGED <<resolveVars, captureVars, op, callNo, meta, pixels, destBefore, firstOut, ifdStart,
                   stripOffset, stripByteCount, ifd, actualCount, endPos, ret, unpackVars>>

W_Strip ==
    /\ op = "write" /\ pc = "w_strip"
    /\ \E ok \in BOOLEAN :
         LET a == align2(Stream, ok)
         IN  /\ stripOffset' = currentOffset(a)
             /\ SetStream(StreamWrite(a, StripBytes(pixels, meta.width * meta.height), ok))
    /\ stripByteCount' = meta.width * meta.height * 2
    /\ pc' = "w_push"
    /\ UNCHANGED <<resolveVars, captureVars, op, callNo, meta, pixels, destBefore, firstOut, ifdStart, bi, off,
                   ifd, actualCount, endPos, ret, unpackVars>>

W_Push ==
    /\ op = "write" /\ pc = "w_push"
    /\ ifd' = pushEntries(meta, off, stripOffset, stripByteCount)
    /\ actualCount' = Len(pushEntries(meta, off, stripOffset, stripByteCount))
    /\ pc' = "w_ifd"
    /\ UNCHANGED <<resolveVars, captureVars, op, callNo, meta, pixels, dest, destBefore, firstOut, f, ifdStart, bi,
                   off, stripOffset, stripByteCount, endPos, ret, unpackVars>>

W_WriteIfd ==
    /\ op = "write" /\ pc = "w_ifd"
    /\ endPos' = tellp(Stream)
    /\ \E ok \in BOOLEAN :
         LET s1 == StreamSeek(Stream, ifdStart, ok)
             s2 == StreamWrite(s1, IfdBytes(actualCount, ifd), ok)
         IN  SetStream(StreamSeek(s2, tellp(Stream), ok))
    /\ ret' = TRUE
    /\ pc' = "done"
    /\ UNCHANGED <<resolveVars, captureVars, op, callNo, meta, pixels, destBefore, firstOut, ifdStart, bi, off,
                   stripOffset, stripByteCount, ifd, actualCount, unpackVars>>

----------------------------------------------------------------------------
(* util::unpackRaw10To16 *)

\* (width * 10 + 7) / 8
packedStride(w) == (w * 10 + 7) \div 8

\* p_k = b_k | (((b4 >> 2k) & 0x03) << 8), k = 0..3; b_k < 256 so | adds
Pixel(bk, b4, k) == bk + 256 * ((b4 \div (4 ^ k)) % 4)

\* the early returns of unpackRaw10To16, in source order
UnpackRejects(b, w, h, n) ==
    \/ b.null
    \/ n # w * h
    \/ b.planes # 1
    \/ ~b.cookie
    \/ b.length < packedStride(w) * h

\* indices (relative to src) of line[0..4] that lie outside the plane
OutOfPlane(ln, len) == {k \in 0..4 : ln + k >= len}

\* the five bytes of the group at line: plane bytes where they exist, the
\* bytes oob[k] found behind the plane otherwise
GroupBytes(m, ln, oob) ==
    [k \in 0..4 |-> IF ln + k < Len(m) THEN m[ln + k + 1] ELSE oob[k]]

\* the stores dst[outIdx++] = p_k guarded by x + k < width
StoreGroup(d, oi, xx, w, b) ==
    LET n == IF w - xx >= 4 THEN 4 ELSE w - xx
    IN  [i \in 1..Len(d) |->
            IF i > oi /\ i <= oi + n THEN Pixel(b[i - oi - 1], b[4], i - oi - 1)
            ELSE d[i]]

GroupCount(xx, w) == IF w - xx >= 4 THEN 4 ELSE w - xx

U_Check ==
    /\ op \in {"unpack", "roundtrip"} /\ pc = "u_check"
    /\ IF UnpackRejects(fb, width, height, Len(dst))
       THEN /\ ret' = FALSE /\ pc' = "done"
            /\ UNCHANGED <<outIdx, y, x, line>>
       ELSE /\ ret' = ret /\ pc' = "u_loop"
            /\ outIdx' = 0 /\ y' = 0 /\ x' = 0 /\ line' = 0
    /\ UNCHANGED <<resolveVars, captureVars, op, writerVars, fb, mem, width, height, dst, orig>>

\* one iteration of the while loop: a group of 5 bytes -> up to 4 samples
U_Group ==
    /\ op \in {"unpack", "roundtrip"} /\ pc = "u_loop"
    /\ y < height /\ x < width
    /\ \E oob \in [OutOfPlane(line, Len(mem)) -> {0, 255}] :
         dst' = StoreGroup(dst, outIdx, x, width, GroupBytes(mem, line, oob))
    /\ outIdx' = outIdx + GroupCount(x, width)
    /\ line' = line + 5
    /\ x' = x + 4
    /\ UNCHANGED <<resolveVars, captureVars, op, pc, ret, writerVars, fb, mem, width, height, y, orig>>

\* reading behind the mapping may also fault
U_Fault ==
    /\ op \in {"unpack", "roundtrip"} /\ pc = "u_loop"
    /\ y < height /\ x < width
    /\ OutOfPlane(line, Len(mem)) # {}
    /\ pc' = "crashed"
    /\ UNCHANGED <<resolveVars, captureVars, op, ret, writerVars, unpackVars>>

\* the while loop ends: next iteration of the for loop
U_NextRow ==
    /\ op \in {"unpack", "roundtrip"} /\ pc = "u_loop"
    /\ y < height /\ x >= width
    /\ y' = y + 1
    /\ line' = (y + 1) * packedStride(width)
    /\ x' = 0
    /\ UNCHANGED <<resolveVars, captureVars, op, pc, ret, writerVars, fb, mem, width, height, dst, outIdx, orig>>

U_Return ==
    /\ op \in {"unpack", "roundtrip"} /\ pc = "u_loop"
    /\ y >= height
    /\ ret' = TRUE
    /\ pc' = "done"
    /\ UNCHANGED <<resolveVars, captureVars, op, writerVars, unpackVars>>

----------------------------------------------------------------------------
(* Inputs *)

\* bit i of seed
Bit(seed, i) == (seed \div (2 ^ i)) % 2

Seeds(bits) == 0..(2 ^ bits - 1)

\* n values, the i-th being lo or hi as bit (i mod bits) of seed says
PatternSeq(seed, bits, n, lo, hi) ==
    [i \in 1..n |-> IF Bit(seed, (i - 1) % bits) = 1 THEN hi ELSE lo]

\* packed bytes 0x1B and 0xE4: as b4 their 2-bit fields are 3,2,1,0 and 0,1,2,3
MemOf(seed, n) == PatternSeq(seed, PatternBits, n, 27, 228)

\* 10-bit samples 0x201 and 0x1FE: both bytes differ
SamplesOf(seed, bits, n) == PatternSeq(seed, bits, n, 513, 510)

\* the 4-pixel/5-byte rule applied to one row, cut to the row's stride
PackRow(px, w) ==
    LET at(i) == IF i <= w THEN px[i] ELSE 0
        grp(g) == << at(4 * g + 1) % 256, at(4 * g + 2) % 256,
                     at(4 * g + 3) % 256, at(4 * g + 4) % 256,
                     (at(4 * g + 1) \div 256) + 4 * (at(4 * g + 2) \div 256)
                       + 16 * (at(4 * g + 3) \div 256) + 64 * (at(4 * g + 4) \div 256) >>
        all == Flatten([g \in 1..((w + 3) \div 4) |-> grp(g - 1)])
    IN  SubSeq(all, 1, (w * 10 + 7) \div 8)

Pack(px, w, h) ==
    Flatten([r \in 1..h |-> PackRow(SubSeq(px, (r - 1) * w + 1, r * w), w)])

\* what dst holds before the call: n elements 0xAAAA
DstBefore(n) == [i \in 1..n |-> 43690]

NoDest == [exists |-> FALSE, data |-> <<>>]
OldDest == [exists |-> TRUE, data |-> [i \in 1..OldLen |-> 165]]

DefaultMeta ==
    [width |-> 0, height |-> 0, bayer |-> "RGGB", bitsPerSample |-> 16,
     blackLevel |-> 0, whiteLevel |-> 1023, cfaIlluminant |-> 21]

Metas ==
    {[width |-> w, height |-> h, bayer |-> b, bitsPerSample |-> 16,
      blackLevel |-> lv[1], whiteLevel |-> lv[2], cfaIlluminant |-> 21] :
        w \in 0..MaxW, h \in 0..MaxH, b \in BayerPattern,
        lv \in {<<0, 1023>>, <<64, 4095>>}}

NoFb == [null |-> TRUE, planes |-> 0, offset |-> 0, length |-> 0, cookie |-> FALSE]

WriterLocalsInit ==
    /\ f = [good |-> FALSE, pos |-> 0]
    /\ ifdStart = 0 /\ bi = 0
    /\ off = [n \in {BlockNames[i] : i \in 1..NumBlocks} |-> 0]
    /\ stripOffset = 0 /\ stripByteCount = 0
    /\ ifd = <<>> /\ actualCount = 0 /\ endPos = 0

Tokens == {"RGGB", "BGGR", "GRBG", "GBRG", "rggb", "bggr", "grbg", "gbrg",
           "Rggb", "", "RGB", "GGGG", "RGGBX"}

CaptureIdle ==
    /\ reqState = <<>> /\ camRunning = FALSE /\ cbPc = "idle" /\ cbReq = 0
    /\ cbBase = FALSE /\ saved = 0 /\ g_stop = 0 /\ mainPc = "exit" /\ mapped = <<>>

ResolveIdle == token = "" /\ cfa = <<>>

WriterIdle ==
    /\ callNo = 0 /\ meta = DefaultMeta /\ pixels = <<>>
    /\ dest = NoDest /\ destBefore = NoDest /\ firstOut = <<>>
    /\ WriterLocalsInit

UnpackLocalsInit == outIdx = 0 /\ y = 0 /\ x = 0 /\ line = 0

UnpackIdle ==
    /\ fb = NoFb /\ mem = <<>> /\ width = 0 /\ height = 0 /\ dst = <<>>
    /\ orig = <<>> /\ UnpackLocalsInit

InitWrite ==
    /\ op = "write" /\ pc = "w_check" /\ ret = FALSE
    /\ callNo = 1
    /\ meta \in Metas
    /\ \E n \in {meta.width * meta.height - 1, meta.width * meta.height,
                 meta.width * meta.height + 1} \cap Nat :
         pixels \in {SamplesOf(sd, PixelBits, n) : sd \in Seeds(PixelBits)}
    /\ dest \in {NoDest, OldDest}
    /\ destBefore = dest
    /\ firstOut = <<>>
    /\ WriterLocalsInit
    /\ UnpackIdle
    /\ ResolveIdle /\ CaptureIdle

InitUnpack ==
    /\ op = "unpack" /\ pc = "u_check" /\ ret = FALSE
    /\ width \in 0..UnpackMaxW /\ height \in 0..UnpackMaxH
    /\ \E n \in {width * height, width * height + 1} :
         dst = DstBefore(n)
    /\ \E len \in {packedStride(width) * height + d : d \in {-1, 0, 1}} \cap Nat :
         /\ mem \in {MemOf(sd, len) : sd \in Seeds(PatternBits)}
         /\ fb \in {[null |-> nl, planes |-> pl, offset |-> 0, length |-> len,
                     cookie |-> ck] : nl \in BOOLEAN, pl \in {1, 2}, ck \in BOOLEAN}
    /\ orig = <<>>
    /\ UnpackLocalsInit
    /\ WriterIdle
    /\ ResolveIdle /\ CaptureIdle

InitRoundTrip ==
    /\ op = "roundtrip" /\ pc = "u_check" /\ ret = FALSE
    /\ width \in 1..UnpackMaxW /\ height \in 1..UnpackMaxH
    /\ orig \in {SamplesOf(sd, PatternBits, width * height) : sd \in Seeds(PatternBits)}
    /\ mem = Pack(orig, width, height)
    /\ fb = [null |-> FALSE, planes |-> 1, offset |-> 0, length |-> Len(mem),
             cookie |-> TRUE]
    /\ dst = DstBefore(width * height)
    /\ UnpackLocalsInit
    /\ WriterIdle
    /\ ResolveIdle /\ CaptureIdle

\* the mosaic string of the command line is resolved (main: toBayer(bayer))
InitResolve ==
    /\ op = "resolve" /\ pc = "r_resolve" /\ ret = FALSE
    /\ token \in Tokens
    /\ cfa = <<>>
    /\ WriterIdle /\ UnpackIdle /\ CaptureIdle

Init == InitWrite \/ InitUnpack \/ InitRoundTrip \/ InitResolve

\* meta.bayer = toBayer(bayer); patt = bayerPattern2x2(meta.bayer)
R_Resolve ==
    /\ op = "resolve" /\ pc = "r_resolve"
    /\ cfa' = bayerPattern2x2(toBayer(token))
    /\ pc' = "done"
    /\ UNCHANGED <<captureVars, op, ret, token, writerVars, unpackVars>>

\* the caller serializes the same (meta, pixels) a second time, to a
\* destination whose earlier contents are independent of the first one's
W_CallAgain ==
    /\ op = "write" /\ pc = "done" /\ callNo = 1
    /\ ret /\ f.good
    /\ callNo' = 2
    /\ firstOut' = dest.data
    /\ dest' \in {NoDest, OldDest}
    /\ destBefore' = dest'
    /\ f' = [good |-> FALSE, pos |-> 0]
    /\ ifdStart' = 0 /\ bi' = 0
    /\ off' = [n \in {BlockNames[i] : i \in 1..NumBlocks} |-> 0]
    /\ stripOffset' = 0 /\ stripByteCount' = 0
    /\ ifd' = <<>> /\ actualCount' = 0 /\ endPos' = 0
    /\ ret' = FALSE
    /\ pc' = "w_check"
    /\ UNCHANGED <<resolveVars, captureVars, op, meta, pixels, unpackVars>>

Next ==
    \/ W_CheckSize
    \/ W_Open
    \/ W_Header
    \/ W_Reserve
    \/ W_Block
    \/ W_Strip
    \/ W_Push
    \/ W_WriteIfd
    \/ W_CallAgain
    \/ U_Check
    \/ U_Group
    \/ U_Fault
    \/ U_NextRow
    \/ U_Return
    \/ R_Resolve

Spec == Init /\ [][Next]_vars

----------------------------------------------------------------------------
(* main: the capture loop.  reqComplete runs on the camera's thread, one    *)
(* call at a time; main polls g_stop and saved and then shuts down.         *)

Requests == 1..BufferCount

\* the state after camera->start() succeeded: every request queued, every
\* buffer mapped and its address stored as the buffer's cookie
InitCapture ==
    /\ op = "capture" /\ pc = "capture" /\ ret = FALSE
    /\ reqState = [r \in Requests |-> "queued"]
    /\ camRunning = TRUE
    /\ cbPc = "idle" /\ cbReq = 0 /\ cbBase = FALSE
    /\ saved = 0 /\ g_stop = 0
    /\ mainPc = "wait"
    /\ mapped = [r \in Requests |-> "mapped"]
    /\ WriterIdle /\ UnpackIdle /\ ResolveIdle

\* saved >= frames || g_stop
stopWanted(sv, gs) == sv >= Frames \/ gs = 1

\* camera->stop(): requests still queued complete as cancelled, and
\* reqComplete returns at once for them
cancelQueued(rs) == [r \in Requests |-> IF rs[r] = "queued" THEN "cancelled" ELSE rs[r]]

\* the unpack-failure path of reqComplete: log and return
afterUnpackFailure(rs, r) == [rs EXCEPT ![r] = "idle"]

\* the camera completes a queued request and calls reqComplete with it
Cam_Complete(r) ==
    /\ op = "capture" /\ mainPc \in {"wait", "unmap"}
    /\ camRunning /\ cbPc = "idle"
    /\ reqState[r] = "queued"
    /\ reqState' = [reqState EXCEPT ![r] = "callback"]
    /\ cbReq' = r
    /\ cbPc' = "cookie"
    /\ UNCHANGED <<resolveVars, op, pc, ret, writerVars, unpackVars,
                   camRunning, cbBase, saved, g_stop, mainPc, mapped>>

\* unpackRaw10To16: void *base = fb->cookie(); if (!base) return false
CB_ReadCookie ==
    /\ op = "capture" /\ mainPc \in {"wait", "unmap"}
    /\ cbPc = "cookie"
    /\ cbBase' = (mapped[cbReq] # "cleared")
    /\ IF mapped[cbReq] = "cleared"
       THEN /\ reqState' = afterUnpackFailure(reqState, cbReq)
            /\ cbPc' = "idle"
       ELSE /\ reqState' = reqState
            /\ cbPc' = "unpack"
    /\ UNCHANGED <<resolveVars, op, pc, ret, writerVars, unpackVars,
                   camRunning, cbReq, saved, g_stop, mainPc, mapped>>

\* unpackRaw10To16 checks the plane and reads it through base; a read of a
\* mapping that is gone faults or yields anything
CB_Unpack ==
    /\ op = "capture" /\ mainPc \in {"wait", "unmap"}
    /\ cbPc = "unpack"
    /\ \E outcome \in {"ok", "failed", "fault"} :
         /\ outcome = "fault" => mapped[cbReq] # "mapped"
         /\ CASE outcome = "ok" ->
                   /\ cbPc' = "save"
                   /\ UNCHANGED <<reqState, mainPc>>
              [] outcome = "failed" ->
                   /\ cbPc' = "idle"
                   /\ reqState' = afterUnpackFailure(reqState, cbReq)
                   /\ UNCHANGED mainPc
              [] outcome = "fault" ->
                   /\ cbPc' = "crashed"
                   /\ mainPc' = "crashed"
                   /\ UNCHANGED reqState
    /\ UNCHANGED <<resolveVars, op, pc, ret, writerVars, unpackVars,
                   camRunning, cbReq, cbBase, saved, g_stop, mapped>>

\* the frame is written (the result of the write is only logged); saved++
CB_Save ==
    /\ op = "capture" /\ mainPc \in {"wait", "unmap"}
    /\ cbPc = "save"
    /\ saved' = saved + 1
    /\ cbPc' = "decide"
    /\ UNCHANGED <<resolveVars, op, pc, ret, writerVars, unpackVars,
                   reqState, camRunning, cbReq, cbBase, g_stop, mainPc, mapped>>

\* if (saved >= frames || g_stop) camera->stop(); else re-queue the request
CB_StopOrRequeue ==
    /\ op = "capture" /\ mainPc \in {"wait", "unmap"}
    /\ cbPc = "decide"
    /\ IF stopWanted(saved, g_stop)
       THEN /\ camRunning' = FALSE
            /\ reqState' = [cancelQueued(reqState) EXCEPT ![cbReq] = "idle"]
       ELSE /\ camRunning' = camRunning
            /\ \E queued \in BOOLEAN :
                 reqState' = [reqState EXCEPT ![cbReq] =
                                 IF queued THEN "queued" ELSE "idle"]
    /\ cbPc' = "idle"
    /\ UNCHANGED <<resolveVars, op, pc, ret, writerVars, unpackVars,
                   cbReq, cbBase, saved, g_stop, mainPc, mapped>>

\* onSigInt
SigInt ==
    /\ op = "capture" /\ mainPc \in {"wait", "unmap"}
    /\ g_stop = 0
    /\ g_stop' = 1
    /\ UNCHANGED <<resolveVars, op, pc, ret, writerVars, unpackVars,
                   reqState, camRunning, cbPc, cbReq, cbBase, saved, mainPc, mapped>>

\* while (!g_stop && saved < frames) sleep: the loop ends
M_LeaveWait ==
    /\ op = "capture" /\ mainPc = "wait"
    /\ ~(g_stop = 0 /\ saved < Frames)
    /\ mainPc' = "unmap"
    /\ UNCHANGED <<resolveVars, op, pc, ret, writerVars, unpackVars,
                   reqState, camRunning, cbPc, cbReq, cbBase, saved, g_stop, mapped>>

\* shutdown: munmap(addr, length) of the next buffer
M_Unmap(b) ==
    /\ op = "capture" /\ mainPc = "unmap"
    /\ mapped[b] = "mapped"
    /\ \A c \in Requests : c < b => mapped[c] = "cleared"
    /\ mapped' = [mapped EXCEPT ![b] = "unmapped"]
    /\ UNCHANGED <<resolveVars, op, pc, ret, writerVars, unpackVars,
                   reqState, camRunning, cbPc, cbReq, cbBase, saved, g_stop, mainPc>>

\* shutdown: fb->setCookie(nullptr)
M_ClearCookie(b) ==
    /\ op = "capture" /\ mainPc = "unmap"
    /\ mapped[b] = "unmapped"
    /\ mapped' = [mapped EXCEPT ![b] = "cleared"]
    /\ UNCHANGED <<resolveVars, op, pc, ret, writerVars, unpackVars,
                   reqState, camRunning, cbPc, cbReq, cbBase, saved, g_stop, mainPc>>

\* allocator.free, camera->release(), cm.stop(), return 0
M_Release ==
    /\ op = "capture" /\ mainPc = "unmap"
    /\ \A b \in Requests : mapped[b] = "cleared"
    /\ camRunning' = FALSE
    /\ mainPc' = "exit"
    /\ UNCHANGED <<resolveVars, op, pc, ret, writerVars, unpackVars,
                   reqState, cbPc, cbReq, cbBase, saved, g_stop, mapped>>

CameraThread ==
    \/ \E r \in Requests : Cam_Complete(r)
    \/ CB_ReadCookie
    \/ CB_Unpack
    \/ CB_Save
    \/ CB_StopOrRequeue

MainThread ==
    \/ M_LeaveWait
    \/ \E b \in Requests : M_Unmap(b)
    \/ \E b \in Requests : M_ClearCookie(b)
    \/ M_Release

NextCapture ==
    \/ \E r \in Requests : Cam_Complete(r)
    \/ CB_ReadCookie
    \/ CB_Unpack
    \/ CB_Save
    \/ CB_StopOrRequeue
    \/ SigInt
    \/ M_LeaveWait
    \/ \E b \in Requests : M_Unmap(b)
    \/ \E b \in Requests : M_ClearCookie(b)
    \/ M_Release

\* both threads keep running; SIGINT may never come
SpecCapture ==
    InitCapture /\ [][NextCapture]_vars /\ WF_vars(CameraThread) /\ WF_vars(MainThread)

----------------------------------------------------------------------------
(* Reading a file back: the container rule a TIFF reader applies *)

RdU16(d, o) == d[o + 1] + 256 * d[o + 2]
RdU32(d, o) == d[o + 1] + 256 * d[o + 2] + 65536 * d[o + 3] + 16777216 * d[o + 4]

DirOffset(d) == RdU32(d, 4)
NumEntries(d) == RdU16(d, DirOffset(d))
DirEnd(d) == DirOffset(d) + 2 + 12 * NumEntries(d) + 4

EntryAt(d, i) ==
    LET o == DirOffset(d) + 2 + 12 * (i - 1)
    IN  [tag |-> RdU16(d, o), type |-> RdU16(d, o + 2), count |-> RdU32(d, o + 4),
         value |-> RdU32(d, o + 8), field |-> SubSeq(d, o + 9, o + 12)]

TypeSize(t) ==
    CASE t = 1 -> 1 [] t = 2 -> 1 [] t = 3 -> 2 [] t = 4 -> 4 [] t = 5 -> 8
      [] OTHER -> 1

PayloadSize(e) == TypeSize(e.type) * e.count

TagEntry(d, t) == EntryAt(d, CHOOSE i \in 1..NumEntries(d) : EntryAt(d, i).tag = t)

\* inline when the payload fits the 4-byte field, else the block at the offset
Payload(d, e) ==
    IF PayloadSize(e) <= 4 THEN SubSeq(e.field, 1, PayloadSize(e))
    ELSE SubSeq(d, e.value + 1, e.value + PayloadSize(e))

Decoded(d, t) == Payload(d, TagEntry(d, t))

AsShorts(bs) == [i \in 1..(Len(bs) \div 2) |-> bs[2 * i - 1] + 256 * bs[2 * i]]
AsLongs(bs) == [i \in 1..(Len(bs) \div 4) |-> RdU32(bs, 4 * (i - 1))]

\* entries whose payload a reader looks for in a data block
OutOfLine(d) == {i \in 1..NumEntries(d) : PayloadSize(EntryAt(d, i)) > 4}

\* write returned true and every write and seek of the call was performed
WriteOk == op = "write" /\ pc = "done" /\ ret /\ f.good

----------------------------------------------------------------------------
(* Claims *)

\* C1: in a file of a successful write, decoding each entry by the container
\* rule (payload inline when size x count <= 4, else at the offset) yields
\* ImageWidth = width, ImageLength = height, BitsPerSample = 16, CFA repeat
\* dims = (2,2), CFAPattern = pattern of meta.bayer, CFAPlaneColor = (0,1,2),
\* BlackLevel = meta.blackLevel, WhiteLevel = meta.whiteLevel.
C1_TagsDecode ==
    WriteOk =>
        LET d == dest.data
        IN  /\ AsLongs(Decoded(d, TAG_ImageWidth)) = <<meta.width>>
            /\ AsLongs(Decoded(d, TAG_ImageLength)) = <<meta.height>>
            /\ AsShorts(Decoded(d, TAG_BitsPerSample)) = <<16>>
            /\ AsShorts(Decoded(d, TAG_CFARepeatPattern)) = <<2, 2>>
            /\ Decoded(d, TAG_CFAPattern) = bayerPattern2x2(meta.bayer)
            /\ Decoded(d, TAG_CFAPlaneColor) = <<0, 1, 2>>
            /\ AsShorts(Decoded(d, TAG_BlackLevel)) = <<meta.blackLevel>>
            /\ AsShorts(Decoded(d, TAG_WhiteLevel)) = <<meta.whiteLevel>>

\* C2: when unpackRaw10To16 returns true, every sample (x, y) equals
\* b[x mod 4] | (((b4 >> 2(x mod 4)) & 3) << 8) for the five bytes b0..b4 of
\* group x div 4 of row y of the frame; width samples per row are written,
\* none beyond, and every sample is <= 1023.
C2_SamplesFromGroup ==
    (op = "unpack" /\ pc = "done" /\ ret) =>
        /\ Len(dst) = width * height
        /\ outIdx = width * height
        /\ \A yy \in 0..(height - 1) : \A xx \in 0..(width - 1) :
             LET base == yy * ((width * 10 + 7) \div 8) + 5 * (xx \div 4)
                 k == xx % 4
             IN  /\ base + 4 < fb.length
                 /\ dst[yy * width + xx + 1]
                      = mem[base + k + 1] + 256 * ((mem[base + 5] \div (4 ^ k)) % 4)
                 /\ dst[yy * width + xx + 1] <= 1023

\* C3: in a file of a successful write the StripOffsets entry is the offset
\* where the strip begins, StripByteCounts = width*height*2, RowsPerStrip =
\* height, the strip bytes are the samples in row-major order, low byte
\* first, and the strip lies after the last data block.
C3_Strip ==
    WriteOk =>
        LET d == dest.data
            so == TagEntry(d, TAG_StripOffsets).value
            sbc == TagEntry(d, TAG_StripByteCounts).value
        IN  /\ so = stripOffset
            /\ sbc = meta.width * meta.height * 2
            /\ TagEntry(d, TAG_RowsPerStrip).value = meta.height
            /\ so + sbc <= Len(d)
            /\ \A i \in 1..(meta.width * meta.height) :
                 /\ d[so + 2 * i - 1] = pixels[i] % 256
                 /\ d[so + 2 * i] = pixels[i] \div 256
            /\ \A i \in 1..NumBlocks : off[BlockNames[i]] < so
            /\ \A i \in OutOfLine(d) :
                 EntryAt(d, i).value + PayloadSize(EntryAt(d, i)) <= so

C3_Witness ==
    /\ WriteOk /\ meta.width = 2 /\ meta.height = 2
    /\ pixels = <<513, 510, 513, 510>>
    /\ TagEntry(dest.data, TAG_StripByteCounts).value = 8

\* C4: a file of a successful write starts with 0x4949, 42 and a 4-byte
\* offset D; at D there is a 2-byte count n = number of tags emitted, then
\* the n 12-byte entries, then a 4-byte 0.
C4_HeaderAndDirectory ==
    WriteOk =>
        LET d == dest.data
            D == DirOffset(d)
            n == NumEntries(d)
        IN  /\ Len(d) >= 8
            /\ RdU16(d, 0) = 18761
            /\ RdU16(d, 2) = 42
            /\ n = Len(ifd)
            /\ D + 2 + 12 * n + 4 <= Len(d)
            /\ \A i \in 1..n : SubSeq(d, D + 2 + 12 * (i - 1) + 1, D + 2 + 12 * i)
                                 = IfdEntryBytes(ifd[i])
            /\ RdU32(d, D + 2 + 12 * n) = 0

C4_Witness ==
    /\ WriteOk /\ NumEntries(dest.data) = 20
    /\ EntryAt(dest.data, 20).tag = TAG_ColorMatrix1

\* C5 (as stated): regions in the order header, data blocks, directory,
\* strip: every data block an entry references lies below the directory's
\* offset, and the directory's offset is below the strip's.
C5_BlocksBeforeDirectory ==
    WriteOk =>
        LET d == dest.data
        IN  /\ \A i \in OutOfLine(d) : EntryAt(d, i).value < DirOffset(d)
            /\ DirOffset(d) < TagEntry(d, TAG_StripOffsets).value

\* C5 (amended): regions in the order header, directory, data blocks, strip:
\* the directory starts right after the header, every data block an entry
\* references lies wholly between the directory's end and the strip's
\* offset, and the directory's offset is below the strip's.
C5_DirectoryBeforeBlocks ==
    WriteOk =>
        LET d == dest.data
            so == TagEntry(d, TAG_StripOffsets).value
        IN  /\ DirOffset(d) = 8
            /\ \A i \in OutOfLine(d) :
                 /\ DirEnd(d) <= EntryAt(d, i).value
                 /\ EntryAt(d, i).value + PayloadSize(EntryAt(d, i)) <= so
            /\ \A i \in 1..NumBlocks :
                 DirEnd(d) <= off[BlockNames[i]] /\ off[BlockNames[i]] < so
            /\ DirOffset(d) < so

C5_Witness ==
    /\ WriteOk /\ OutOfLine(dest.data) # {}
    /\ TagEntry(dest.data, TAG_ColorMatrix1).value > DirEnd(dest.data)

\* C6: every data block and the pixel strip begin at an even offset: the
\* block starts at the write position when that is even and one (pad) byte
\* later when it is odd.
C6_EvenOffsets ==
    [][ (op = "write" /\ f'.good) =>
          /\ (pc = "w_block" =>
                /\ off'[BlockNames[bi]] % 2 = 0
                /\ off'[BlockNames[bi]] = f.pos + (f.pos % 2))
          /\ (pc = "w_strip" =>
                /\ stripOffset' % 2 = 0
                /\ stripOffset' = f.pos + (f.pos % 2)) ]_vars

C6_Witness ==
    /\ WriteOk
    /\ off["defaultScaleOff"] = off["cfaPlaneColorOff"] + 3 + 1
    /\ off["ucmOff"] % 2 = 0
    /\ stripOffset % 2 = 0

\* C7: write returns false whenever the open, a write or a seek failed.
C7_FailureReported ==
    (op = "write" /\ pc = "done" /\ ~f.good) => ret = FALSE

\* C8: validation failures are detected before anything is written: write
\* with pixels.size() # width*height returns false and leaves the
\* destination as it was (not created, not truncated); unpackRaw10To16
\* returns false with dst untouched when dst.size() # width*height, the plane
\* count is not 1 or the plane is shorter than stride*height.
C8_ValidationFirst ==
    /\ (op = "write" /\ Len(pixels) # meta.width * meta.height) =>
          /\ dest = destBefore
          /\ pc \in {"w_check", "done"}
          /\ (pc = "done" => ret = FALSE)
    /\ (op = "unpack" /\ (\/ Len(dst) # width * height
                          \/ fb.planes # 1
                          \/ fb.length < ((width * 10 + 7) \div 8) * height)) =>
          /\ dst = [i \in 1..Len(dst) |-> 43690]
          /\ pc \in {"u_check", "done"}
          /\ (pc = "done" => ret = FALSE)

C8_Witness ==
    /\ op = "write" /\ pc = "done" /\ ret = FALSE
    /\ meta.width = 2 /\ meta.height = 2 /\ Len(pixels) = 3
    /\ dest = OldDest

\* C9: packing a buffer of samples 0..1023 row by row (4 pixels -> 5 bytes,
\* stride ceil(width*10/8)) and unpacking it gives the buffer back.
C9_RoundTrip ==
    (op = "roundtrip" /\ pc = "done" /\ ret) => dst = orig

\* C10: a second successful write of the same (meta, pixels) leaves the same
\* bytes as the first, whatever its destination held before.
C10_Deterministic ==
    (WriteOk /\ callNo = 2) => dest.data = firstOut

C10_Witness ==
    /\ WriteOk /\ callNo = 2 /\ destBefore = OldDest
    /\ meta.width * meta.height = 4
    /\ Len(firstOut) > OldLen

\* C11: the resolver maps RGGB, BGGR, GRBG and GBRG to [0,1,1,2], [2,1,1,0],
\* [1,0,2,1] and [1,2,0,1], and every other string, lowercase spellings of
\* the four included, to the RGGB array [0,1,1,2].
C11_Resolver ==
    (op = "resolve" /\ pc = "done") =>
        cfa = CASE token = "RGGB" -> <<0, 1, 1, 2>>
                [] token = "BGGR" -> <<2, 1, 1, 0>>
                [] token = "GRBG" -> <<1, 0, 2, 1>>
                [] token = "GBRG" -> <<1, 2, 0, 1>>
                [] OTHER -> <<0, 1, 1, 2>>

C11_Witness ==
    op = "resolve" /\ pc = "done" /\ token = "gbrg" /\ cfa = <<0, 1, 1, 2>>

\* C12: a call that passed the length check reads, for row y, only bytes
\* with index in [y*stride, (y+1)*stride), stride = ceil(width*10/8): each
\* group line[0..4] it is about to read lies inside row y and so below
\* stride*height.
C12_ReadsWithinRow ==
    (op = "unpack" /\ pc = "u_loop" /\ y < height /\ x < width) =>
        LET stride == (width * 10 + 7) \div 8
        IN  /\ y * stride <= line
            /\ line + 4 < (y + 1) * stride
            /\ line + 4 < stride * height

\* C13: the placeholder is reserved before any data block is written and is
\* at least as large as the directory written into it, so the seek-back
\* write changes no byte of a data block or of the strip, the recorded
\* offsets keep addressing their blocks, and the write position ends at the
\* end of the file.
C13_BackPatchInPlace ==
    [][ (op = "write" /\ pc = "w_ifd" /\ f'.good) =>
          LET dirSize == 2 + 12 * actualCount + 4
              first == off["bpsOff"]
          IN  /\ dirSize <= 2 + 12 * entryCount + 4
              /\ ifdStart + dirSize <= first
              /\ \A i \in 1..NumBlocks : first <= off[BlockNames[i]]
              /\ first <= stripOffset
              /\ Len(dest'.data) = Len(dest.data)
              /\ \A i \in (first + 1)..Len(dest.data) : dest'.data[i] = dest.data[i]
              /\ f'.pos = Len(dest'.data) ]_vars

C13_Witness ==
    /\ WriteOk /\ Len(ifd) = 20 /\ off["bpsOff"] = 278
    /\ f.pos = Len(dest.data) /\ stripByteCount = 4

\* C14: the directory lists its entries in strictly ascending tag order,
\* each tag of the required set exactly once.
C14_AscendingTags ==
    WriteOk =>
        LET d == dest.data
            n == NumEntries(d)
        IN  /\ \A i \in 1..(n - 1) : EntryAt(d, i).tag < EntryAt(d, i + 1).tag
            /\ \A t \in {TAG_ImageWidth, TAG_ImageLength, TAG_BitsPerSample,
                         TAG_Compression, TAG_Photometric, TAG_StripOffsets,
                         TAG_SamplesPerPixel, TAG_RowsPerStrip, TAG_StripByteCounts,
                         TAG_PlanarConfig, TAG_CFARepeatPattern, TAG_CFAPattern,
                         TAG_DNGVersion, TAG_UniqueCameraModel, TAG_CFAPlaneColor,
                         TAG_BlackLevel, TAG_WhiteLevel, TAG_DefaultScale,
                         TAG_CalibrationIlluminant1, TAG_ColorMatrix1} :
                 Cardinality({i \in 1..n : EntryAt(d, i).tag = t}) = 1


\* reqComplete returns from a failed unpack
UnpackFailureReturn ==
    /\ op = "capture"
    /\ cbPc \in {"cookie", "unpack"}
    /\ cbPc' = "idle"

\* every unpack that ran in this behaviour so far failed, and no frame was saved
WaitingForever == op = "capture" /\ mainPc = "wait" /\ saved = 0 /\ g_stop = 0

\* C15: a frame whose unpack fails is logged and its request is queued again
\* so that capture goes on with later frames; and when no frame is ever
\* saved the program still leaves the wait loop without SIGINT.
C15_FailedFrameRequeuedOrAbort ==
    /\ [][UnpackFailureReturn => reqState'[cbReq] = "queued"]_vars
    /\ <>(~WaitingForever)

\* C16: no callback reads a frame buffer through its mapping after main has
\* unmapped that buffer.
C16_NoReadAfterUnmap ==
    (op = "capture" /\ cbPc = "unpack") => mapped[cbReq] = "mapped"

====
